---- MODULE Spec2Model ----
(***************************************************************************)
(* Model of hyperkd/code/debugger/commands/DebuggerCommands.c: the memory  *)
(* read, edit and search commands of the kernel debugger.                  *)
(*                                                                         *)
(* One request is served per behaviour.  The initial states enumerate the  *)
(* request records and the debuggee state (breakpoint list, page mapping,  *)
(* memory contents) the handlers can be called with; every handler is one  *)
(* action, except the memory search whose scan loop is one action per      *)
(* candidate position.  Results of collaborators that live outside this    *)
(* file (memory accessors, validity checks, process queries) are chosen    *)
(* nondeterministically inside the action that calls them and recorded in  *)
(* the *Outcome variables.                                                 *)
(***************************************************************************)
EXTENDS Integers, Sequences, FiniteSets, TLC

(***************************************************************************)
(* Bounds of the model.                                                    *)
(***************************************************************************)
MaxReadSize == 2
MaxBreakpoints == 2
MaxEditCount == 2

(***************************************************************************)
(* 64-bit addresses of the read commands.  TLC integers are 32 bits wide,  *)
(* so a UINT64 is four 16-bit limbs, most significant first, and the       *)
(* arithmetic below is the C arithmetic modulo 2^64.                       *)
(***************************************************************************)
Limb == 65536

U64(n) == <<0, 0, n \div Limb, n % Limb>>

NULL64 == U64(0)

U64Max == <<Limb - 1, Limb - 1, Limb - 1, Limb - 1>>

\* 0xFFFF800000000000
KernelBase == <<Limb - 1, Limb \div 2, 0, 0>>

\* 0xFFFF7FFFFFFFFFFF
KernelBaseMinusOne == <<Limb - 1, (Limb \div 2) - 1, Limb - 1, Limb - 1>>

\* a >= b on UINT64
U64Ge(a, b) ==
    \/ a[1] > b[1]
    \/ a[1] = b[1] /\ a[2] > b[2]
    \/ a[1] = b[1] /\ a[2] = b[2] /\ a[3] > b[3]
    \/ a[1] = b[1] /\ a[2] = b[2] /\ a[3] = b[3] /\ a[4] >= b[4]

\* a + n on UINT64, n a small natural (wraps at 2^64)
U64Add(a, n) ==
    LET s4 == a[4] + n
        s3 == a[3] + (s4 \div Limb)
        s2 == a[2] + (s3 \div Limb)
        s1 == a[1] + (s2 \div Limb)
    IN  <<s1 % Limb, s2 % Limb, s3 % Limb, s4 % Limb>>

\* a - b on UINT64 (wraps at 2^64)
U64Sub(a, b) ==
    LET d4 == a[4] - b[4]
        w4 == IF d4 < 0 THEN 1 ELSE 0
        d3 == a[3] - b[3] - w4
        w3 == IF d3 < 0 THEN 1 ELSE 0
        d2 == a[2] - b[2] - w3
        w2 == IF d2 < 0 THEN 1 ELSE 0
        d1 == a[1] - b[1] - w2
    IN  <<(d1 + Limb) % Limb, (d2 + Limb) % Limb, (d3 + Limb) % Limb, (d4 + Limb) % Limb>>

\* the value of a UINT64 known to be below 2^31, as an index
U64ToNat(a) == a[3] * Limb + a[4]

\* Address + Size leaves the 64-bit address space
U64RangeWraps(a, n) == ~ U64Ge(U64Add(a, n), a)

(***************************************************************************)
(* Values of the request fields.  The enumerations of the read and search  *)
(* requests are only compared for equality and are kept as their names.    *)
(***************************************************************************)
TrapOpcode == 204

NopByte == 144

UntouchedByte == 238

CurrentPid == 4

OtherPid == 8

ReadMemoryTypes ==
    {"DEBUGGER_READ_PHYSICAL_ADDRESS", "DEBUGGER_READ_VIRTUAL_ADDRESS", "INVALID_MEMORY_TYPE"}

UserBase == U64(4096)

ReadAddresses == {NULL64, UserBase, KernelBaseMinusOne, KernelBase, U64Max}

\* what the target memory can hold at the bytes that are read
RawBuffers(Size) == [1..Size -> {NopByte, TrapOpcode}]

\* the caller's buffer before the call
UntouchedBuffer(Size) == [i \in 1..Size |-> UntouchedByte]

UntouchedReturnSize == MaxReadSize + 5

\* the original byte a descriptor at UserBase - 1 + k keeps
PreviousByteAt(k) == 80 + k

BreakpointSites == 0..(MaxReadSize + 1)

BreakpointDescriptor(k) ==
    [Address |-> U64Add(U64Sub(UserBase, U64(1)), k), PreviousByte |-> PreviousByteAt(k)]

RECURSIVE BreakpointLists(_)
\* the lists of at most n descriptors, no two at the same address
BreakpointLists(n) ==
    IF n = 0 THEN {<<>>}
    ELSE LET Shorter == BreakpointLists(n - 1)
         IN  Shorter \cup
             {Append(l, BreakpointDescriptor(k)) : l \in {s \in Shorter : Len(s) = n - 1},
                                                   k \in BreakpointSites}

DistinctAddresses(l) == \A i, j \in 1..Len(l) : l[i].Address = l[j].Address => i = j

VARIABLES
    pc,                    \* "ready", "done", or the position inside the search
    operation,             \* the exposed operation the request is for
    CheckOutcome,          \* result of the address validity check the operation made
    ReadMemRequest,        \* DEBUGGER_READ_MEMORY
    UserBuffer,            \* the Size bytes of the caller's buffer
    AdjacentByte,          \* the byte that follows the caller's buffer in memory
    ReturnSize,            \* *ReturnSize
    ReadReturn,            \* the BOOLEAN the read returned
    g_BreakpointsListHead, \* the breakpoint descriptors, in list order
    ProcessIsWow64,        \* whether the owning process is a 32-bit process
    RawBuffer,             \* the buffer as the accessor left it
    TouchedOffsets,        \* buffer offsets the un-shadowing pass accessed
    AccessorOutcome,       \* result of the memory read accessor
    QueryOutcome,          \* result of the WOW64 query
    EditMemRequest,        \* DEBUGGER_EDIT_MEMORY followed by its payload of 64-bit slots
    EditReturn,            \* the NTSTATUS / BOOLEAN the edit returned
    mem,                   \* the bytes of the target memory, by address
    Written,               \* the addresses the write accessor has written
    CheckedLength,         \* the length CheckAccessValidityAndSafety was called with
    WriteOutcomes,         \* the results of the write accessor calls, in call order
    SearchMemRequest,      \* DEBUGGER_SEARCH_MEMORY followed by its pattern of 64-bit slots
    UsermodeBuffer,        \* the request buffer seen as the output array of UINT64
    SearchReturn,          \* the NTSTATUS DebuggerCommandSearchMemory returned
    MappedPages,           \* the pages of the target address space that translate
    SearchResultsStorage,  \* the scratch array of MaximumSearchResults UINT64
    PoolState,             \* "none", "allocated" or "freed": the scratch pool block
    StorageOverrun,        \* the values stored past the end of the scratch array
    AddressFrom,           \* the caller's start address
    AddressTo,             \* the caller's start address plus length
    CountOfResults,        \* *CountOfMatchedCases
    SearchResult,          \* the BOOLEAN SearchAddressWrapper returned
    cr3,                   \* the process whose memory layout is active
    scan,                  \* the arguments and locals of PerformSearchAddress
    ScanReads,             \* the target addresses the scan has read
    Candidate,             \* the position the scan examined last
    Matched,               \* whether that position was recorded as a match
    ReadOrWriteMsrRequest, \* DEBUGGER_READ_AND_WRITE_ON_MSR
    g_DbgState,            \* per core, the MsrState slot: Msr and Value
    MsrOfCore,             \* per core, the contents of its model-specific registers
    MsrUserBuffer,         \* the caller's output buffer of UINT64 slots
    MsrReturnSize,         \* *ReturnSize of the MSR operation
    MsrStatus,             \* the NTSTATUS DebuggerReadOrWriteMsr returned
    PendingCores,          \* the cores whose broadcast routine has not run yet
    DispatchedCores,       \* the cores a routine was dispatched to
    DispatchStatus         \* what DpcRoutineRunTaskOnSingleCore returned

readVars ==
    <<ReadMemRequest, UserBuffer, AdjacentByte, ReturnSize, ReadReturn, g_BreakpointsListHead,
      ProcessIsWow64, RawBuffer, TouchedOffsets, AccessorOutcome, QueryOutcome>>

editVars == <<EditMemRequest, EditReturn, mem, Written, CheckedLength, WriteOutcomes>>

searchVars ==
    <<SearchMemRequest, UsermodeBuffer, SearchReturn, MappedPages, SearchResultsStorage,
      PoolState, StorageOverrun, AddressFrom, AddressTo, CountOfResults, SearchResult, cr3,
      scan, ScanReads, Candidate, Matched>>

msrVars ==
    <<ReadOrWriteMsrRequest, g_DbgState, MsrOfCore, MsrUserBuffer, MsrReturnSize, MsrStatus,
      PendingCores, DispatchedCores, DispatchStatus>>

vars == <<pc, operation, CheckOutcome, readVars, editVars, searchVars, msrVars>>

\* no MSR request is being served
MsrIdle ==
    /\ ReadOrWriteMsrRequest = <<>>
    /\ g_DbgState = <<>>
    /\ MsrOfCore = <<>>
    /\ MsrUserBuffer = <<>>
    /\ MsrReturnSize = 0
    /\ MsrStatus = "none"
    /\ PendingCores = {}
    /\ DispatchedCores = {}
    /\ DispatchStatus = "none"

(***************************************************************************)
(* The read commands.                                                      *)
(***************************************************************************)

ReadParamsValid_SizeOnly(Size, Address) == Size # 0

\* if (Size && Address != (UINT64)NULL)
ReadParamsValid(Size, Address) == Size # 0 /\ Address # NULL64

IsCanonicalKernelAddress_Strict(Address) == ~ U64Ge(KernelBase, Address) /\ U64Ge(U64Max, Address)

\* if (Address >= 0xFFFF800000000000 && Address <= 0xFFFFFFFFFFFFFFFF)
IsCanonicalKernelAddress(Address) == U64Ge(Address, KernelBase) /\ U64Ge(U64Max, Address)

\* the WOW64 query is made for user-mode addresses only
QueryOutcomes(Address) ==
    IF IsCanonicalKernelAddress(Address) THEN {"none"} ELSE {"ok", "fail"}

\* the AddressMode the read stores; Query is the outcome of the WOW64 query
InferAddressMode(Address, Query, Is32BitProcess) ==
    IF IsCanonicalKernelAddress(Address)
    THEN "DEBUGGER_READ_ADDRESS_MODE_64_BIT"
    ELSE IF Query = "ok"
         THEN IF Is32BitProcess
              THEN "DEBUGGER_READ_ADDRESS_MODE_32_BIT"
              ELSE "DEBUGGER_READ_ADDRESS_MODE_64_BIT"
         ELSE "DEBUGGER_READ_ADDRESS_MODE_64_BIT"

\* the request after a successful read
ReadSucceeded(Request, Query, Is32BitProcess) ==
    LET Inferred ==
            IF Request.MemoryType = "DEBUGGER_READ_VIRTUAL_ADDRESS" /\ Request.GetAddressMode
            THEN InferAddressMode(Request.Address, Query, Is32BitProcess)
            ELSE Request.AddressMode
    IN  [Request EXCEPT !.AddressMode = Inferred,
                        !.KernelStatus = "DEBUGGER_OPERATION_WAS_SUCCESSFUL"]

\* the query outcomes a successful read can see
ReadQueryOutcomes(Request) ==
    IF Request.MemoryType = "DEBUGGER_READ_VIRTUAL_ADDRESS" /\ Request.GetAddressMode
    THEN QueryOutcomes(Request.Address)
    ELSE {"none"}

DebuggerCommandReadMemory ==
    /\ pc = "ready"
    /\ operation = "ReadMemory"
    /\ pc' = "done"
    /\ LET Size == ReadMemRequest.Size
           Address == ReadMemRequest.Address
       IN  IF ReadParamsValid(Size, Address)
           THEN \E Accessor \in {"ok", "fail"} :
                    /\ AccessorOutcome' = Accessor
                    /\ IF Accessor = "ok"
                       THEN \E Raw \in RawBuffers(Size), Query \in ReadQueryOutcomes(ReadMemRequest) :
                                /\ RawBuffer' = Raw
                                /\ UserBuffer' = Raw
                                /\ ReturnSize' = Size
                                /\ QueryOutcome' = Query
                                /\ ReadMemRequest' = ReadSucceeded(ReadMemRequest, Query, ProcessIsWow64)
                                /\ ReadReturn' = "TRUE"
                       ELSE /\ ReadMemRequest' =
                                [ReadMemRequest EXCEPT
                                    !.KernelStatus = "DEBUGGER_ERROR_READING_MEMORY_INVALID_PARAMETER"]
                            /\ ReadReturn' = "FALSE"
                            /\ UNCHANGED <<RawBuffer, UserBuffer, ReturnSize, QueryOutcome>>
           ELSE /\ ReadMemRequest' =
                    [ReadMemRequest EXCEPT
                        !.KernelStatus = "DEBUGGER_ERROR_READING_MEMORY_INVALID_PARAMETER"]
                /\ ReadReturn' = "FALSE"
                /\ UNCHANGED <<RawBuffer, UserBuffer, ReturnSize, QueryOutcome, AccessorOutcome>>
    /\ UNCHANGED <<msrVars, operation, AdjacentByte, g_BreakpointsListHead, ProcessIsWow64, TouchedOffsets,
                   CheckOutcome, editVars, searchVars>>

\* CheckAddressPhysical: the physical address is valid or not
CheckAddressPhysicalOutcomes(Address) == {"ok", "fail"}

\* CheckAccessValidityAndSafety: never passes for the null address or for a
\* range that leaves the address space
CheckAccessValidityAndSafetyOutcomes(Address, Size) ==
    IF Address = NULL64 \/ U64RangeWraps(Address, Size) THEN {"fail"} ELSE {"ok", "fail"}

\* if (Desc->Address >= Address && Desc->Address <= Address + Size)
BreakpointInRange(Desc, Address, Size) ==
    U64Ge(Desc.Address, Address) /\ U64Ge(U64Add(Address, Size), Desc.Address)

\* OffsetInUserBuffer = Desc->Address - Address
OffsetInUserBuffer(Desc, Address) == U64ToNat(U64Sub(Desc.Address, Address))

SwapIfTrap_Always(Byte, PreviousByte) == PreviousByte

\* if (UserBuffer[Offset] == 0xcc) UserBuffer[Offset] = PreviousByte
SwapIfTrap(Byte, PreviousByte) == IF Byte = TrapOpcode THEN PreviousByte ELSE Byte

RECURSIVE UnshadowBreakpoints(_, _, _, _, _)
\* The walk over g_BreakpointsListHead from descriptor i on.  Memory is the
\* caller's buffer followed by the byte after it; Touched collects the
\* offsets that were accessed.
UnshadowBreakpoints(List, i, Memory, Address, Size) ==
    IF i > Len(List)
    THEN [Memory |-> Memory, Touched |-> {}]
    ELSE IF BreakpointInRange(List[i], Address, Size)
         THEN LET Offset == OffsetInUserBuffer(List[i], Address)
                  Swapped == [Memory EXCEPT
                                 ![Offset + 1] = SwapIfTrap(Memory[Offset + 1], List[i].PreviousByte)]
                  Rest == UnshadowBreakpoints(List, i + 1, Swapped, Address, Size)
              IN  [Memory |-> Rest.Memory, Touched |-> {Offset} \cup Rest.Touched]
         ELSE UnshadowBreakpoints(List, i + 1, Memory, Address, Size)

VmxRootCheckFailureStatus_SameForBoth(MemType) == "DEBUGGER_ERROR_INVALID_ADDRESS"

\* the status of a read whose validity check failed
VmxRootCheckFailureStatus(MemType) ==
    IF MemType = "DEBUGGER_READ_PHYSICAL_ADDRESS"
    THEN "DEBUGGER_ERROR_INVALID_PHYSICAL_ADDRESS"
    ELSE "DEBUGGER_ERROR_INVALID_ADDRESS"

\* the outcomes of the check the memory type asks for
VmxRootCheckOutcomes(MemType, Address, Size) ==
    IF MemType = "DEBUGGER_READ_PHYSICAL_ADDRESS"
    THEN CheckAddressPhysicalOutcomes(Address)
    ELSE CheckAccessValidityAndSafetyOutcomes(Address, Size)

DebuggerCommandReadMemoryVmxRoot ==
    /\ pc = "ready"
    /\ operation = "ReadMemoryVmxRoot"
    /\ pc' = "done"
    /\ LET Size == ReadMemRequest.Size
           Address == ReadMemRequest.Address
           MemType == ReadMemRequest.MemoryType
       IN  IF MemType \in {"DEBUGGER_READ_PHYSICAL_ADDRESS", "DEBUGGER_READ_VIRTUAL_ADDRESS"}
           THEN \E Check \in VmxRootCheckOutcomes(MemType, Address, Size) :
                    /\ CheckOutcome' = Check
                    /\ IF Check = "fail"
                       THEN /\ ReadMemRequest' =
                                [ReadMemRequest EXCEPT
                                    !.KernelStatus = VmxRootCheckFailureStatus(MemType)]
                            /\ ReadReturn' = "FALSE"
                            /\ UNCHANGED <<RawBuffer, UserBuffer, AdjacentByte, ReturnSize,
                                           QueryOutcome, AccessorOutcome, TouchedOffsets>>
                       ELSE \E Accessor \in {"ok", "fail"}, Raw \in RawBuffers(Size),
                               Query \in ReadQueryOutcomes(ReadMemRequest) :
                                LET Copied == IF Accessor = "ok" THEN Raw ELSE UserBuffer
                                    Pass == IF MemType = "DEBUGGER_READ_VIRTUAL_ADDRESS"
                                            THEN UnshadowBreakpoints(g_BreakpointsListHead, 1,
                                                     Append(Copied, AdjacentByte), Address, Size)
                                            ELSE [Memory |-> Append(Copied, AdjacentByte),
                                                  Touched |-> {}]
                                IN  /\ AccessorOutcome' = Accessor
                                    /\ RawBuffer' = Copied
                                    /\ UserBuffer' = SubSeq(Pass.Memory, 1, Size)
                                    /\ AdjacentByte' = Pass.Memory[Size + 1]
                                    /\ TouchedOffsets' = Pass.Touched
                                    /\ QueryOutcome' = Query
                                    /\ ReadMemRequest' =
                                           ReadSucceeded(ReadMemRequest, Query, ProcessIsWow64)
                                    /\ ReturnSize' = Size
                                    /\ ReadReturn' = "TRUE"
           ELSE /\ ReadMemRequest' =
                    [ReadMemRequest EXCEPT !.KernelStatus = "DEBUGGER_ERROR_MEMORY_TYPE_INVALID"]
                /\ ReadReturn' = "FALSE"
                /\ UNCHANGED <<RawBuffer, UserBuffer, AdjacentByte, ReturnSize, QueryOutcome,
                               AccessorOutcome, TouchedOffsets, CheckOutcome>>
    /\ UNCHANGED <<msrVars, operation, g_BreakpointsListHead, ProcessIsWow64, editVars, searchVars>>

ReadRequests ==
    [Pid : {CurrentPid},
     Size : 0..MaxReadSize,
     Address : ReadAddresses,
     MemoryType : ReadMemoryTypes,
     GetAddressMode : BOOLEAN,
     AddressMode : {"ADDRESS_MODE_NOT_SET"},
     KernelStatus : {"STATUS_NOT_SET"}]

\* no search request is being served
SearchIdle ==
    /\ SearchMemRequest = <<>>
    /\ UsermodeBuffer = <<>>
    /\ SearchReturn = "none"
    /\ MappedPages = {}
    /\ SearchResultsStorage = <<>>
    /\ PoolState = "none"
    /\ StorageOverrun = <<>>
    /\ AddressFrom = 0
    /\ AddressTo = 0
    /\ CountOfResults = 0
    /\ SearchResult = "none"
    /\ cr3 = CurrentPid
    /\ scan = <<>>
    /\ ScanReads = {}
    /\ Candidate = 0
    /\ Matched = FALSE

\* no edit request is being served
EditIdle ==
    /\ EditMemRequest = <<>>
    /\ EditReturn = "none"
    /\ mem = <<>>
    /\ Written = {}
    /\ CheckedLength = -1
    /\ WriteOutcomes = <<>>

InitRead ==
    /\ MsrIdle
    /\ pc = "ready"
    /\ EditIdle
    /\ SearchIdle
    /\ operation \in {"ReadMemory", "ReadMemoryVmxRoot"}
    /\ ReadMemRequest \in ReadRequests
    /\ UserBuffer = UntouchedBuffer(ReadMemRequest.Size)
    /\ AdjacentByte \in {NopByte, TrapOpcode}
    /\ ReturnSize = UntouchedReturnSize
    /\ ReadReturn = "none"
    /\ g_BreakpointsListHead \in {l \in BreakpointLists(MaxBreakpoints) : DistinctAddresses(l)}
    /\ ProcessIsWow64 \in BOOLEAN
    /\ RawBuffer = UserBuffer
    /\ TouchedOffsets = {}
    /\ CheckOutcome = "none"
    /\ AccessorOutcome = "none"
    /\ QueryOutcome = "none"

NextRead == DebuggerCommandReadMemory \/ DebuggerCommandReadMemoryVmxRoot

SpecRead == InitRead /\ [][NextRead]_vars

(***************************************************************************)
(* Claims about the read commands, checked under SpecRead.                 *)
(***************************************************************************)
ReadDone(Operation) == pc = "done" /\ operation = Operation

\* the descriptors of the list that sit at buffer offset o of the request
DescriptorsAt(o) ==
    {j \in 1..Len(g_BreakpointsListHead) :
        g_BreakpointsListHead[j].Address = U64Add(ReadMemRequest.Address, o)}

\* C4: after a restricted-context virtual read, the byte returned for a
\* breakpoint descriptor (A, B) with A in [address, address+size) is B when
\* the byte copied for A is 0xCC and the copied byte otherwise; a byte of
\* the buffer that belongs to no descriptor is returned as copied.
C4_BreakpointMasking ==
    (/\ ReadDone("ReadMemoryVmxRoot")
     /\ ReadReturn = "TRUE"
     /\ ReadMemRequest.MemoryType = "DEBUGGER_READ_VIRTUAL_ADDRESS")
    => \A o \in 0..(ReadMemRequest.Size - 1) :
           /\ DescriptorsAt(o) = {} => UserBuffer[o + 1] = RawBuffer[o + 1]
           /\ \A j \in DescriptorsAt(o) :
                  UserBuffer[o + 1] =
                      IF RawBuffer[o + 1] = 204
                      THEN g_BreakpointsListHead[j].PreviousByte
                      ELSE RawBuffer[o + 1]

\* C24: in the restricted-context virtual read the un-shadowing pass reads
\* and overwrites offsets in [0, size) of the destination buffer only, for
\* every breakpoint list, a descriptor at address + size included: the byte
\* after the buffer is never accessed.  (Stated for a non-empty buffer.)
C24_UnshadowStaysInsideBuffer ==
    (/\ ReadDone("ReadMemoryVmxRoot")
     /\ ReadReturn = "TRUE"
     /\ ReadMemRequest.Size > 0
     /\ ReadMemRequest.MemoryType = "DEBUGGER_READ_VIRTUAL_ADDRESS")
    => \A o \in TouchedOffsets : o >= 0 /\ o < ReadMemRequest.Size

\* a read that un-shadowed one byte, kept a descriptor byte that was not a
\* trap and kept a byte without descriptor
C4_Witness ==
    /\ ReadDone("ReadMemoryVmxRoot")
    /\ ReadReturn = "TRUE"
    /\ ReadMemRequest.MemoryType = "DEBUGGER_READ_VIRTUAL_ADDRESS"
    /\ ReadMemRequest.Size = 2
    /\ DescriptorsAt(1) # {}
    /\ RawBuffer[2] = 204
    /\ UserBuffer[2] = PreviousByteAt(2)
    /\ DescriptorsAt(0) = {}
    /\ RawBuffer[1] = 204
    /\ UserBuffer[1] = 204

\* C5: the normal-context read with size == 0 or address == 0 sets the read
\* InvalidParameter status, returns failure, does not call the memory
\* accessor and leaves the caller's buffer and return size as they were.
C5_NormalReadRejectsNullOrEmpty ==
    (/\ ReadDone("ReadMemory")
     /\ (ReadMemRequest.Size = 0 \/ ReadMemRequest.Address = <<0, 0, 0, 0>>))
    => /\ ReadMemRequest.KernelStatus = "DEBUGGER_ERROR_READING_MEMORY_INVALID_PARAMETER"
       /\ ReadReturn = "FALSE"
       /\ AccessorOutcome = "none"
       /\ UserBuffer = UntouchedBuffer(ReadMemRequest.Size)
       /\ ReturnSize = UntouchedReturnSize

C5_Witness ==
    /\ ReadDone("ReadMemory")
    /\ ReadMemRequest.Size = 2
    /\ ReadMemRequest.Address = <<0, 0, 0, 0>>
    /\ ReadMemRequest.KernelStatus = "DEBUGGER_ERROR_READING_MEMORY_INVALID_PARAMETER"
    /\ UserBuffer = UntouchedBuffer(2)

\* C6 (as claimed): the restricted-context read with size == 0 or
\* address == 0 yields an InvalidParameter status, never Success, and copies
\* zero bytes.
C6_VmxRootReadRejectsNullOrEmpty ==
    (/\ ReadDone("ReadMemoryVmxRoot")
     /\ (ReadMemRequest.Size = 0 \/ ReadMemRequest.Address = <<0, 0, 0, 0>>))
    => /\ ReadMemRequest.KernelStatus = "DEBUGGER_ERROR_READING_MEMORY_INVALID_PARAMETER"
       /\ ReadMemRequest.KernelStatus # "DEBUGGER_OPERATION_WAS_SUCCESSFUL"
       /\ AccessorOutcome = "none"
       /\ UserBuffer = UntouchedBuffer(ReadMemRequest.Size)

\* C7: when the validity check of the restricted-context read fails, the
\* read returns failure with InvalidPhysicalAddress (physical) or
\* InvalidAddress (virtual), makes no copy and leaves the destination
\* buffer and the returned size unchanged.
C7_VmxRootCheckFailure ==
    (ReadDone("ReadMemoryVmxRoot") /\ CheckOutcome = "fail")
    => /\ ReadReturn = "FALSE"
       /\ ReadMemRequest.MemoryType = "DEBUGGER_READ_PHYSICAL_ADDRESS"
              => ReadMemRequest.KernelStatus = "DEBUGGER_ERROR_INVALID_PHYSICAL_ADDRESS"
       /\ ReadMemRequest.MemoryType = "DEBUGGER_READ_VIRTUAL_ADDRESS"
              => ReadMemRequest.KernelStatus = "DEBUGGER_ERROR_INVALID_ADDRESS"
       /\ AccessorOutcome = "none"
       /\ UserBuffer = UntouchedBuffer(ReadMemRequest.Size)
       /\ ReturnSize = UntouchedReturnSize

C7_Witness ==
    /\ ReadDone("ReadMemoryVmxRoot")
    /\ CheckOutcome = "fail"
    /\ ReadMemRequest.MemoryType = "DEBUGGER_READ_PHYSICAL_ADDRESS"
    /\ ReadMemRequest.Address = UserBase
    /\ ReadMemRequest.Size = 2
    /\ ReadMemRequest.KernelStatus = "DEBUGGER_ERROR_INVALID_PHYSICAL_ADDRESS"

\* C8: after a successful virtual read with address-mode inference, in
\* either context, AddressMode is 64-bit for an address of
\* [0xFFFF800000000000, 0xFFFFFFFFFFFFFFFF] whatever the process is; below
\* that range it is 32-bit exactly when the process query succeeded and
\* reported a 32-bit process, and 64-bit otherwise.
C8_AddressModeInference ==
    (/\ pc = "done"
     /\ operation \in {"ReadMemory", "ReadMemoryVmxRoot"}
     /\ ReadReturn = "TRUE"
     /\ ReadMemRequest.MemoryType = "DEBUGGER_READ_VIRTUAL_ADDRESS"
     /\ ReadMemRequest.GetAddressMode)
    => ReadMemRequest.AddressMode =
           IF U64Ge(ReadMemRequest.Address, <<65535, 32768, 0, 0>>)
           THEN "DEBUGGER_READ_ADDRESS_MODE_64_BIT"
           ELSE IF QueryOutcome = "ok" /\ ProcessIsWow64
                THEN "DEBUGGER_READ_ADDRESS_MODE_32_BIT"
                ELSE "DEBUGGER_READ_ADDRESS_MODE_64_BIT"

\* the first kernel address read on behalf of a 32-bit process
C8_Witness ==
    /\ ReadDone("ReadMemoryVmxRoot")
    /\ ReadReturn = "TRUE"
    /\ ReadMemRequest.MemoryType = "DEBUGGER_READ_VIRTUAL_ADDRESS"
    /\ ReadMemRequest.GetAddressMode
    /\ ReadMemRequest.Address = <<65535, 32768, 0, 0>>
    /\ ProcessIsWow64
    /\ ReadMemRequest.AddressMode = "DEBUGGER_READ_ADDRESS_MODE_64_BIT"

(***************************************************************************)
(* The edit commands.  Addresses of the edit and search requests stay      *)
(* below 2^31 and are written as plain integers.  The payload holds        *)
(* CountOf64Chunks slots, the transport layer having checked that they fit *)
(* the request buffer, so ByteSize * CountOf64Chunks does not wrap UINT32. *)
(***************************************************************************)
EDIT_BYTE == 1

EDIT_DWORD == 4

EDIT_QWORD == 8

EditByteSizes == {EDIT_BYTE, EDIT_DWORD, EDIT_QWORD, EDIT_QWORD + 1}

EditMemoryTypes == {"EDIT_VIRTUAL_MEMORY", "EDIT_PHYSICAL_MEMORY", "INVALID_MEMORY_TYPE"}

EditBase == 16

\* the low bytes of the 64-bit slots the payload can hold: 0x0102, 0x01020304
SlotValues == {258, 16909060}

\* the addresses of the modelled target memory
EditMemory == 0..(EditBase + 8 * MaxEditCount + 7)

\* target memory before the edit: every byte holds a value no payload holds
InitialMemory == [a \in EditMemory |-> UntouchedByte]

LengthOfEachChunk_DefaultQword(ByteSize) ==
    IF ByteSize = EDIT_BYTE THEN 1
    ELSE IF ByteSize = EDIT_DWORD THEN 4
    ELSE 8

\* LengthOfEachChunk, 0 for an unknown ByteSize
LengthOfEachChunk(ByteSize) ==
    IF ByteSize = EDIT_BYTE THEN 1
    ELSE IF ByteSize = EDIT_DWORD THEN 4
    ELSE IF ByteSize = EDIT_QWORD THEN 8
    ELSE 0

RECURSIVE ByteOfSlot(_, _)
\* byte j of a little-endian 64-bit slot
ByteOfSlot(Slot, j) == IF j = 0 THEN Slot % 256 ELSE ByteOfSlot(Slot \div 256, j - 1)

\* the bytes chunk i (from 0) of the request is written to
ChunkAddresses(Address, Length, i) == (Address + i * Length)..(Address + i * Length + Length - 1)

WriteChunk_WholeSlot(Memory, Destination, Slot, Length) ==
    [a \in DOMAIN Memory |->
        IF a >= Destination /\ a < Destination + 8
        THEN ByteOfSlot(Slot, a - Destination)
        ELSE Memory[a]]

\* one call of the write accessor: Length bytes of Slot to Destination
WriteChunk(Memory, Destination, Slot, Length) ==
    [a \in DOMAIN Memory |->
        IF a >= Destination /\ a < Destination + Length
        THEN ByteOfSlot(Slot, a - Destination)
        ELSE Memory[a]]

RECURSIVE EditLoop(_, _, _, _, _, _)
\* The chunk loop from chunk i (from 0) on, making Calls accessor calls in
\* all; a call whose outcome is "fail" writes nothing.
EditLoop(Memory, Request, Length, Outcomes, Calls, i) ==
    IF i >= Calls
    THEN [Memory |-> Memory, Written |-> {}]
    ELSE LET Destination == Request.Address + i * Length
             After == IF Outcomes[i + 1] = "ok"
                      THEN WriteChunk(Memory, Destination, Request.Payload[i + 1], Length)
                      ELSE Memory
             Rest == EditLoop(After, Request, Length, Outcomes, Calls, i + 1)
         IN  [Memory |-> Rest.Memory,
              Written |-> (IF Outcomes[i + 1] = "ok"
                           THEN ChunkAddresses(Request.Address, Length, i)
                           ELSE {}) \cup Rest.Written]

\* the index of the first failed call, Len + 1 when none fails
FirstFailure(Outcomes) ==
    IF \E i \in 1..Len(Outcomes) : Outcomes[i] = "fail"
    THEN CHOOSE i \in 1..Len(Outcomes) :
             Outcomes[i] = "fail" /\ \A j \in 1..(i - 1) : Outcomes[j] = "ok"
    ELSE Len(Outcomes) + 1

PhysicalEditCalls_NoAbort(Outcomes) == Len(Outcomes)

\* the calls the normal-context physical loop makes: it returns at the
\* first call that reports failure
PhysicalEditCalls(Outcomes) ==
    IF FirstFailure(Outcomes) <= Len(Outcomes) THEN FirstFailure(Outcomes) ELSE Len(Outcomes)

EditVmxRootCheckSize_OneChunk(ByteSize, CountOf64Chunks) == ByteSize

\* the Size argument of CheckAccessValidityAndSafety
EditVmxRootCheckSize(ByteSize, CountOf64Chunks) == ByteSize * CountOf64Chunks

EditInvalidAddressStatus_AlwaysCurrent(ProcessId) ==
    "DEBUGGER_ERROR_EDIT_MEMORY_STATUS_INVALID_ADDRESS_BASED_ON_CURRENT_PROCESS"

\* The status of a normal-context virtual edit whose address does not
\* translate in the process of the request: the first test is made for the
\* current process only, the second for every other process.
EditInvalidAddressStatus(ProcessId) ==
    IF ProcessId = CurrentPid
    THEN "DEBUGGER_ERROR_EDIT_MEMORY_STATUS_INVALID_ADDRESS_BASED_ON_CURRENT_PROCESS"
    ELSE "DEBUGGER_ERROR_EDIT_MEMORY_STATUS_INVALID_ADDRESS_BASED_ON_OTHER_PROCESS"

\* the edit returns with Result and Return before any accessor call
EditRejected(Result, Return) ==
    /\ EditMemRequest' = [EditMemRequest EXCEPT !.Result = Result]
    /\ EditReturn' = Return
    /\ UNCHANGED <<mem, Written, WriteOutcomes>>

\* the chunk loop has made Calls accessor calls with these outcomes
EditApplied(Length, Outcomes, Calls, Result, Return) ==
    LET Loop == EditLoop(mem, EditMemRequest, Length, Outcomes, Calls, 0)
    IN  /\ mem' = Loop.Memory
        /\ Written' = Loop.Written
        /\ WriteOutcomes' = SubSeq(Outcomes, 1, Calls)
        /\ EditMemRequest' = [EditMemRequest EXCEPT !.Result = Result]
        /\ EditReturn' = Return

DebuggerCommandEditMemory ==
    /\ pc = "ready"
    /\ operation = "EditMemory"
    /\ pc' = "done"
    /\ LET Length == LengthOfEachChunk(EditMemRequest.ByteSize)
           Count == EditMemRequest.CountOf64Chunks
       IN  IF Length = 0
           THEN /\ EditRejected("DEBUGGER_ERROR_EDIT_MEMORY_STATUS_INVALID_PARAMETER",
                                "STATUS_UNSUCCESSFUL")
                /\ UNCHANGED CheckOutcome
           ELSE IF EditMemRequest.MemoryType = "EDIT_VIRTUAL_MEMORY"
           THEN \E Translation \in {"ok", "fail"} :
                    /\ CheckOutcome' = Translation
                    /\ IF Translation = "fail"
                       THEN EditRejected(EditInvalidAddressStatus(EditMemRequest.ProcessId),
                                         "STATUS_UNSUCCESSFUL")
                       ELSE \E Outcomes \in [1..Count -> {"ok", "fail"}] :
                                EditApplied(Length, Outcomes, Count,
                                            "DEBUGGER_OPERATION_WAS_SUCCESSFUL", "STATUS_SUCCESS")
           ELSE IF EditMemRequest.MemoryType = "EDIT_PHYSICAL_MEMORY"
           THEN \E Check \in CheckAddressPhysicalOutcomes(EditMemRequest.Address) :
                    /\ CheckOutcome' = Check
                    /\ IF Check = "fail"
                       THEN EditRejected("DEBUGGER_ERROR_INVALID_ADDRESS", "STATUS_UNSUCCESSFUL")
                       ELSE \E Outcomes \in [1..Count -> {"ok", "fail"}] :
                                IF FirstFailure(Outcomes) <= Count
                                THEN EditApplied(Length, Outcomes, PhysicalEditCalls(Outcomes),
                                                 "DEBUGGER_ERROR_INVALID_ADDRESS",
                                                 "STATUS_UNSUCCESSFUL")
                                ELSE EditApplied(Length, Outcomes, PhysicalEditCalls(Outcomes),
                                                 "DEBUGGER_OPERATION_WAS_SUCCESSFUL",
                                                 "STATUS_SUCCESS")
           ELSE /\ EditRejected("DEBUGGER_ERROR_EDIT_MEMORY_STATUS_INVALID_PARAMETER",
                                "STATUS_UNSUCCESSFUL")
                /\ UNCHANGED CheckOutcome
    /\ UNCHANGED <<msrVars, operation, CheckedLength, readVars, searchVars>>

DebuggerCommandEditMemoryVmxRoot ==
    /\ pc = "ready"
    /\ operation = "EditMemoryVmxRoot"
    /\ pc' = "done"
    /\ LET Length == LengthOfEachChunk(EditMemRequest.ByteSize)
           Count == EditMemRequest.CountOf64Chunks
       IN  IF Length = 0
           THEN /\ EditRejected("DEBUGGER_ERROR_EDIT_MEMORY_STATUS_INVALID_PARAMETER", "FALSE")
                /\ UNCHANGED <<CheckOutcome, CheckedLength>>
           ELSE IF EditMemRequest.MemoryType = "EDIT_VIRTUAL_MEMORY"
           THEN \E Check \in {"ok", "fail"} :
                    /\ CheckOutcome' = Check
                    /\ CheckedLength' = EditVmxRootCheckSize(EditMemRequest.ByteSize, Count)
                    /\ IF Check = "fail"
                       THEN EditRejected("DEBUGGER_ERROR_INVALID_ADDRESS", "FALSE")
                       ELSE \E Outcomes \in [1..Count -> {"ok", "fail"}] :
                                EditApplied(Length, Outcomes, Count,
                                            "DEBUGGER_OPERATION_WAS_SUCCESSFUL", "TRUE")
           ELSE IF EditMemRequest.MemoryType = "EDIT_PHYSICAL_MEMORY"
           THEN \E Check \in CheckAddressPhysicalOutcomes(EditMemRequest.Address) :
                    /\ CheckOutcome' = Check
                    /\ UNCHANGED CheckedLength
                    /\ IF Check = "fail"
                       THEN EditRejected("DEBUGGER_ERROR_INVALID_ADDRESS", "FALSE")
                       ELSE \E Outcomes \in [1..Count -> {"ok", "fail"}] :
                                EditApplied(Length, Outcomes, Count,
                                            "DEBUGGER_OPERATION_WAS_SUCCESSFUL", "TRUE")
           ELSE /\ EditRejected("DEBUGGER_ERROR_EDIT_MEMORY_STATUS_INVALID_PARAMETER", "FALSE")
                /\ UNCHANGED <<CheckOutcome, CheckedLength>>
    /\ UNCHANGED <<msrVars, operation, readVars, searchVars>>

EditRequests ==
    UNION {[ProcessId : {CurrentPid, OtherPid},
            Address : {EditBase},
            ByteSize : EditByteSizes,
            CountOf64Chunks : {Count},
            MemoryType : EditMemoryTypes,
            Payload : [1..Count -> SlotValues],
            Result : {"STATUS_NOT_SET"}] : Count \in 0..MaxEditCount}

\* no read request is being served
ReadIdle ==
    /\ ReadMemRequest = <<>>
    /\ UserBuffer = <<>>
    /\ AdjacentByte = 0
    /\ ReturnSize = 0
    /\ ReadReturn = "none"
    /\ g_BreakpointsListHead = <<>>
    /\ ProcessIsWow64 = FALSE
    /\ RawBuffer = <<>>
    /\ TouchedOffsets = {}
    /\ AccessorOutcome = "none"
    /\ QueryOutcome = "none"

InitEdit ==
    /\ MsrIdle
    /\ pc = "ready"
    /\ operation \in {"EditMemory", "EditMemoryVmxRoot"}
    /\ CheckOutcome = "none"
    /\ ReadIdle
    /\ SearchIdle
    /\ EditMemRequest \in EditRequests
    /\ EditReturn = "none"
    /\ mem = InitialMemory
    /\ Written = {}
    /\ CheckedLength = -1
    /\ WriteOutcomes = <<>>

NextEdit == DebuggerCommandEditMemory \/ DebuggerCommandEditMemoryVmxRoot

SpecEdit == InitEdit /\ [][NextEdit]_vars

(***************************************************************************)
(* Claims about the edit commands, checked under SpecEdit.                 *)
(***************************************************************************)
EditDone == pc = "done" /\ operation \in {"EditMemory", "EditMemoryVmxRoot"}

EditFailed == EditMemRequest.Result # "DEBUGGER_OPERATION_WAS_SUCCESSFUL"

\* the width in bytes of the request's granularity, 0 when it is not one
GranularityInBytes ==
    IF EditMemRequest.ByteSize = EDIT_BYTE THEN 1
    ELSE IF EditMemRequest.ByteSize = EDIT_DWORD THEN 4
    ELSE IF EditMemRequest.ByteSize = EDIT_QWORD THEN 8
    ELSE 0

\* the bytes of the first n chunks of the request
FirstChunks(n) ==
    {a \in EditMemory :
        /\ a >= EditMemRequest.Address
        /\ a < EditMemRequest.Address + n * GranularityInBytes}

C10_FailedEditWroteNothing ==
    (EditDone /\ EditFailed) => (Written = {} /\ mem = InitialMemory)

\* C10 (amended): an edit that fails in a validation (granularity, memory
\* type, address check) has made no accessor call and written nothing; the
\* only other failure is the normal-context physical edit whose write
\* accessor fails, and it has written exactly the chunks before the failed
\* one.
C10_FailedEditWroteOnlyBeforeAccessorFailure ==
    (EditDone /\ EditFailed)
    => IF WriteOutcomes = <<>>
       THEN Written = {} /\ mem = InitialMemory
       ELSE /\ operation = "EditMemory"
            /\ EditMemRequest.MemoryType = "EDIT_PHYSICAL_MEMORY"
            /\ EditMemRequest.Result = "DEBUGGER_ERROR_INVALID_ADDRESS"
            /\ WriteOutcomes[Len(WriteOutcomes)] = "fail"
            /\ \A i \in 1..(Len(WriteOutcomes) - 1) : WriteOutcomes[i] = "ok"
            /\ Written = FirstChunks(Len(WriteOutcomes) - 1)

\* a physical edit of two quadwords whose second write failed
C10_Witness ==
    /\ EditDone
    /\ EditFailed
    /\ EditMemRequest.ByteSize = EDIT_QWORD
    /\ WriteOutcomes = <<"ok", "fail">>
    /\ Cardinality(Written) = 8
    /\ mem # InitialMemory

\* an edit rejected by its address check
C10_WitnessRejected ==
    /\ EditDone
    /\ EditFailed
    /\ CheckOutcome = "fail"
    /\ EditMemRequest.CountOf64Chunks = 2
    /\ Written = {}

\* a normal-context virtual edit with a valid granularity whose target
\* address did not translate
UnmappedVirtualEdit ==
    /\ pc = "done"
    /\ operation = "EditMemory"
    /\ EditMemRequest.MemoryType = "EDIT_VIRTUAL_MEMORY"
    /\ GranularityInBytes # 0
    /\ CheckOutcome = "fail"

\* C11: a normal-context virtual edit whose target address has no valid
\* mapping writes nothing and fails, with the current-process status exactly
\* when the request names the caller's process and the other-process status
\* exactly when it names another one.
C11_UnmappedVirtualEditStatus ==
    UnmappedVirtualEdit =>
        /\ Written = {}
        /\ WriteOutcomes = <<>>
        /\ mem = InitialMemory
        /\ EditReturn = "STATUS_UNSUCCESSFUL"
        /\ (EditMemRequest.Result =
                "DEBUGGER_ERROR_EDIT_MEMORY_STATUS_INVALID_ADDRESS_BASED_ON_CURRENT_PROCESS")
           <=> (EditMemRequest.ProcessId = CurrentPid)
        /\ (EditMemRequest.Result =
                "DEBUGGER_ERROR_EDIT_MEMORY_STATUS_INVALID_ADDRESS_BASED_ON_OTHER_PROCESS")
           <=> (EditMemRequest.ProcessId # CurrentPid)

\* an unmapped address edited on behalf of another process
C11_Witness ==
    /\ UnmappedVirtualEdit
    /\ EditMemRequest.ProcessId = OtherPid
    /\ EditMemRequest.CountOf64Chunks = 2
    /\ EditMemRequest.Result =
           "DEBUGGER_ERROR_EDIT_MEMORY_STATUS_INVALID_ADDRESS_BASED_ON_OTHER_PROCESS"

\* C12: in both edit operations a request whose granularity is none of
\* Byte, Dword, Qword ends with the edit InvalidParameter status and a
\* failure return, with no address check made and no byte written.
C12_InvalidGranularityRejected ==
    (EditDone /\ GranularityInBytes = 0) =>
        /\ EditMemRequest.Result = "DEBUGGER_ERROR_EDIT_MEMORY_STATUS_INVALID_PARAMETER"
        /\ EditReturn = IF operation = "EditMemory" THEN "STATUS_UNSUCCESSFUL" ELSE "FALSE"
        /\ CheckOutcome = "none"
        /\ CheckedLength = -1
        /\ WriteOutcomes = <<>>
        /\ Written = {}
        /\ mem = InitialMemory

\* a restricted-context edit of two chunks with an unknown granularity
C12_Witness ==
    /\ EditDone
    /\ operation = "EditMemoryVmxRoot"
    /\ GranularityInBytes = 0
    /\ EditMemRequest.CountOf64Chunks = 2
    /\ EditMemRequest.MemoryType = "EDIT_VIRTUAL_MEMORY"
    /\ EditReturn = "FALSE"

\* every check of the edit passed and every accessor call succeeded
EditWentThrough ==
    /\ EditDone
    /\ GranularityInBytes # 0
    /\ EditMemRequest.MemoryType \in {"EDIT_VIRTUAL_MEMORY", "EDIT_PHYSICAL_MEMORY"}
    /\ CheckOutcome = "ok"
    /\ Len(WriteOutcomes) = EditMemRequest.CountOf64Chunks
    /\ \A i \in 1..Len(WriteOutcomes) : WriteOutcomes[i] = "ok"

\* byte j (from 0) of the 64-bit payload slot, least significant first; the
\* slots of the model are below 2^31, so bytes 4..7 are zero
PayloadByte(Slot, j) == IF j > 3 THEN 0 ELSE (Slot \div (256 ^ j)) % 256

\* C13: an edit that goes through writes exactly granularity * count
\* contiguous bytes from the target address: chunk i holds the low bytes of
\* payload slot i, every other byte of memory is as before, and the status
\* is Success.
C13_EditWritesExactlyThePayload ==
    EditWentThrough =>
        LET G == GranularityInBytes
            A == EditMemRequest.Address
        IN  /\ Written = FirstChunks(EditMemRequest.CountOf64Chunks)
            /\ Cardinality(Written) = G * EditMemRequest.CountOf64Chunks
            /\ \A a \in EditMemory :
                   IF a \in FirstChunks(EditMemRequest.CountOf64Chunks)
                   THEN mem[a] = PayloadByte(EditMemRequest.Payload[((a - A) \div G) + 1],
                                             (a - A) % G)
                   ELSE mem[a] = InitialMemory[a]
            /\ EditMemRequest.Result = "DEBUGGER_OPERATION_WAS_SUCCESSFUL"
            /\ EditReturn = IF operation = "EditMemory" THEN "STATUS_SUCCESS" ELSE "TRUE"

\* two doublewords written: 8 bytes changed, the rest of memory untouched
C13_Witness ==
    /\ EditWentThrough
    /\ EditMemRequest.ByteSize = EDIT_DWORD
    /\ EditMemRequest.CountOf64Chunks = 2
    /\ EditMemRequest.Payload = <<258, 16909060>>
    /\ mem[EditBase] = 2
    /\ mem[EditBase + 4] = 4
    /\ mem[EditBase + 8] = UntouchedByte

\* an accessor call made by the operation reported failure
AccessorFailed ==
    \/ /\ EditDone
       /\ \E i \in 1..Len(WriteOutcomes) : WriteOutcomes[i] = "fail"
    \/ /\ pc = "done"
       /\ operation \in {"ReadMemory", "ReadMemoryVmxRoot"}
       /\ AccessorOutcome = "fail"

\* the operation ended with the Success status
EndedWithSuccess ==
    \/ EditDone /\ EditMemRequest.Result = "DEBUGGER_OPERATION_WAS_SUCCESSFUL"
    \/ /\ pc = "done"
       /\ operation \in {"ReadMemory", "ReadMemoryVmxRoot"}
       /\ ReadMemRequest.KernelStatus = "DEBUGGER_OPERATION_WAS_SUCCESSFUL"

\* C14: a read or an edit during which a call of the memory accessor reported
\* failure never ends with the Success status.
C14_AccessorFailureIsReported == AccessorFailed => ~ EndedWithSuccess

(***************************************************************************)
(* The memory search.  Pages are PAGE_SIZE bytes (scaled down), the search *)
(* array holds MaximumSearchResults entries (scaled down), and a 64-bit    *)
(* data word is the tuple of its 8 bytes, least significant first.         *)
(* Reading a page that does not translate is a nondeterministic choice     *)
(* between a page fault that stops the system and an arbitrary value.      *)
(***************************************************************************)
PAGE_SIZE == 4

MaximumSearchResults == 2

MaxPatternChunks == 2

\* the pages of the modelled address space are 0..LastPage; page 0 holds NULL
LastPage == 3

SearchAddresses == 0..((LastPage + 1) * PAGE_SIZE - 1)

SearchByteSizes == {"SEARCH_BYTE", "SEARCH_DWORD", "SEARCH_QWORD", "INVALID_BYTE_SIZE"}

\* PAGE_ALIGN(Va)
PAGE_ALIGN(Va) == Va - (Va % PAGE_SIZE)

PageOf(Va) == Va \div PAGE_SIZE

\* the 64-bit data word whose low byte is b and whose other bytes are 0
Word(b) == [j \in 1..8 |-> IF j = 1 THEN b ELSE 0]

PatternValues == {Word(0), Word(1)}

\* the request buffer before the call, seen as output slots: each slot
\* still holds bytes of the request
RequestImage == [i \in 1..MaximumSearchResults |-> -1]

ZeroedArray == [i \in 1..MaximumSearchResults |-> 0]

\* LengthOfEachChunk of the search, 0 for an unknown ByteSize
SearchLengthOfEachChunk(ByteSize) ==
    IF ByteSize = "SEARCH_BYTE" THEN 1
    ELSE IF ByteSize = "SEARCH_DWORD" THEN 4
    ELSE IF ByteSize = "SEARCH_QWORD" THEN 8
    ELSE 0

\* VirtualAddressToPhysicalAddress(Va) != 0 in the target layout
Translates(Pages, Va) == Va \in SearchAddresses /\ PageOf(Va) \in Pages

\* the bytes Va .. Va + Length - 1 all translate
RangeTranslates(Pages, Va, Length) == \A a \in Va..(Va + Length - 1) : Translates(Pages, a)

\* Cmp64 after Length bytes at Va were copied over its low bytes
ChunkAt(Memory, Va, Length) == [j \in 1..8 |-> IF j <= Length THEN Memory[Va + j - 1] ELSE 0]

\* what the copy of Length bytes at Va can leave in Cmp64; <<>> is a fault
ReadOutcomes(Memory, Pages, Va, Length) ==
    IF RangeTranslates(Pages, Va, Length)
    THEN {ChunkAt(Memory, Va, Length)}
    ELSE {<<>>, Word(0), Word(1)}

RECURSIVE ContiguousEnd(_, _, _)
\* the validation walk: StartAddress when the while loop of the wrapper ends
ContiguousEnd(Pages, StartAddress, EndAddress) ==
    IF StartAddress < EndAddress /\ Translates(Pages, StartAddress)
    THEN ContiguousEnd(Pages, StartAddress + PAGE_SIZE, EndAddress)
    ELSE StartAddress

\* DoesBaseAddrSaved: the first page of the walk translated
DoesBaseAddrSaved(Pages, StartAddress, EndAddress) ==
    PAGE_ALIGN(StartAddress) < EndAddress /\ Translates(Pages, PAGE_ALIGN(StartAddress))

\* if (DoesBaseAddrSaved && StartAddress > BaseAddress)
RangeAccepted(Pages, StartAddress, EndAddress) ==
    /\ DoesBaseAddrSaved(Pages, StartAddress, EndAddress)
    /\ ContiguousEnd(Pages, PAGE_ALIGN(StartAddress), EndAddress) > StartAddress

RECURSIVE VerifyOutcomes(_, _, _, _, _, _)
\* The loop over the remaining pattern chunks from index i on: the set of
\* ways it can end, each with StillMatch, whether a read faulted, and the
\* addresses read.
VerifyOutcomes(Memory, Pages, Request, Length, Base, i) ==
    IF i >= Request.CountOf64Chunks
    THEN {[StillMatch |-> TRUE, Fault |-> FALSE, Reads |-> {}]}
    ELSE LET Va == Base + Length * i
             Here == Va..(Va + Length - 1)
         IN  UNION {IF Cmp64 = <<>>
                    THEN {[StillMatch |-> FALSE, Fault |-> TRUE, Reads |-> Here]}
                    ELSE IF Cmp64 # Request.Pattern[i + 1]
                    THEN {[StillMatch |-> FALSE, Fault |-> FALSE, Reads |-> Here]}
                    ELSE {[r EXCEPT !.Reads = Here \cup @] :
                             r \in VerifyOutcomes(Memory, Pages, Request, Length, Base, i + 1)}
                    : Cmp64 \in ReadOutcomes(Memory, Pages, Va, Length)}

\* for (size_t i = LengthOfEachChunk; ...): the first pattern index verified
FirstVerifiedIndex(Length) == Length

\* if (MaximumSearchResults > IndexToArrayOfResults)
ResultSlotLeft(Index) == MaximumSearchResults > Index

\* The direct map of physical memory: physical address Pa is visible at
\* virtual address Pa + DirectMapOffset, in every process.
DirectMapOffset == PAGE_SIZE

\* PhysicalAddressToVirtualAddress / ...ByProcessId
PhysicalAddressToVirtualAddress(Pa) == Pa + DirectMapOffset

\* VirtualAddressToPhysicalAddress of an address of the direct map
VirtualAddressToPhysicalAddress(Va) == Va - DirectMapOffset

\* the address recorded for a match at Va
ResultAddress(Request, Va) ==
    IF Request.MemoryType = "SEARCH_PHYSICAL_FROM_VIRTUAL_MEMORY"
    THEN VirtualAddressToPhysicalAddress(Va)
    ELSE Va

\* where PerformSearchAddress returns to: the physical branch of the wrapper
\* has the request to restore, the virtual branch returns at once
AfterPerformSearchAddress(Request) ==
    IF Request.MemoryType = "SEARCH_PHYSICAL_FROM_VIRTUAL_MEMORY" THEN "restore" ELSE "copyback"

RestoreRequest_TypeOnly(Request, RealPhysicalAddress) ==
    [Request EXCEPT !.MemoryType = "SEARCH_PHYSICAL_MEMORY"]

\* SearchMemRequest->MemoryType = SEARCH_PHYSICAL_MEMORY;
\* SearchMemRequest->Address = RealPhysicalAddress;
RestoreRequest(Request, RealPhysicalAddress) ==
    [Request EXCEPT !.MemoryType = "SEARCH_PHYSICAL_MEMORY", !.Address = RealPhysicalAddress]

\* a search request has arrived
DebuggerCommandSearchMemory ==
    /\ pc = "ready"
    /\ operation = "SearchMemory"
    /\ AddressFrom' = SearchMemRequest.Address
    /\ AddressTo' = SearchMemRequest.Address + SearchMemRequest.Length
    /\ \E Exists \in BOOLEAN, Allocated \in BOOLEAN :
           IF SearchMemRequest.ProcessId # CurrentPid /\ ~ Exists
           THEN /\ SearchReturn' = "STATUS_INVALID_PARAMETER"
                /\ pc' = "done"
                /\ UNCHANGED <<SearchResultsStorage, PoolState>>
           ELSE IF ~ Allocated
           THEN /\ SearchReturn' = "STATUS_INSUFFICIENT_RESOURCES"
                /\ pc' = "done"
                /\ UNCHANGED <<SearchResultsStorage, PoolState>>
           ELSE /\ SearchResultsStorage' = ZeroedArray
                /\ PoolState' = "allocated"
                /\ pc' = "wrapper"
                /\ UNCHANGED SearchReturn
    /\ UNCHANGED <<msrVars, operation, CheckOutcome, readVars, editVars, SearchMemRequest, UsermodeBuffer,
                   MappedPages, StorageOverrun, CountOfResults, SearchResult, cr3, scan,
                   ScanReads, Candidate, Matched>>

\* The wrapper up to its validation walk: for a virtual search it switches
\* to the layout of the request's process and keeps the token of the switch
\* in WrapperProcessCr3.  For a physical search it rewrites the request to
\* the virtual image of the range, tags it, and calls PerformSearchAddress.
\* Any other memory type returns FALSE here.
SearchAddressWrapper ==
    /\ pc = "wrapper"
    /\ CountOfResults' = 0
    /\ IF SearchMemRequest.MemoryType = "SEARCH_VIRTUAL_MEMORY"
       THEN /\ cr3' = SearchMemRequest.ProcessId
            /\ scan' = [StartAddress |-> AddressFrom,
                        EndAddress |-> AddressTo,
                        BaseIterator |-> AddressFrom,
                        LengthOfEachChunk |-> 0,
                        IndexToArrayOfResults |-> 0,
                        CountOfOccurance |-> 0,
                        CurrentProcessCr3 |-> 0,
                        WrapperProcessCr3 |-> cr3,
                        RealPhysicalAddress |-> 0]
            /\ pc' = "validate"
            /\ UNCHANGED <<SearchResult, SearchMemRequest>>
       ELSE IF SearchMemRequest.MemoryType = "SEARCH_PHYSICAL_MEMORY"
       THEN /\ SearchMemRequest' =
                   [SearchMemRequest EXCEPT
                       !.Address = PhysicalAddressToVirtualAddress(AddressFrom),
                       !.MemoryType = "SEARCH_PHYSICAL_FROM_VIRTUAL_MEMORY"]
            /\ scan' = [StartAddress |-> PhysicalAddressToVirtualAddress(AddressFrom),
                        EndAddress |-> PhysicalAddressToVirtualAddress(AddressTo),
                        BaseIterator |-> PhysicalAddressToVirtualAddress(AddressFrom),
                        LengthOfEachChunk |-> 0,
                        IndexToArrayOfResults |-> 0,
                        CountOfOccurance |-> 0,
                        CurrentProcessCr3 |-> 0,
                        WrapperProcessCr3 |-> 0,
                        RealPhysicalAddress |-> SearchMemRequest.Address]
            /\ pc' = "perform"
            /\ UNCHANGED <<SearchResult, cr3>>
       ELSE /\ SearchResult' = "FALSE"
            /\ pc' = "copyback"
            /\ UNCHANGED <<scan, cr3, SearchMemRequest>>
    /\ UNCHANGED <<msrVars, operation, CheckOutcome, readVars, editVars, UsermodeBuffer,
                   SearchReturn, MappedPages, SearchResultsStorage, PoolState, StorageOverrun,
                   AddressFrom, AddressTo, ScanReads, Candidate, Matched>>

\* The validation walk of the wrapper in the layout of the target, the
\* restore of the previous layout, and the decision to scan or to return.
SearchAddressWrapperValidate ==
    /\ pc = "validate"
    /\ cr3' = scan.WrapperProcessCr3
    /\ IF RangeAccepted(MappedPages, AddressFrom, AddressTo)
       THEN /\ pc' = "perform"
            /\ UNCHANGED SearchResult
       ELSE /\ SearchResult' = "FALSE"
            /\ pc' = "copyback"
    /\ UNCHANGED <<msrVars, operation, CheckOutcome, readVars, editVars, SearchMemRequest, UsermodeBuffer,
                   SearchReturn, MappedPages, SearchResultsStorage, PoolState, StorageOverrun,
                   AddressFrom, AddressTo, CountOfResults, scan, ScanReads, Candidate, Matched>>

\* PerformSearchAddress up to its scan loop
PerformSearchAddress ==
    /\ pc = "perform"
    /\ LET Length == SearchLengthOfEachChunk(SearchMemRequest.ByteSize)
       IN  IF Length = 0
           THEN /\ SearchResult' = "FALSE"
                /\ pc' = AfterPerformSearchAddress(SearchMemRequest)
                /\ UNCHANGED <<scan, cr3>>
           ELSE /\ pc' = "scan"
                /\ IF SearchMemRequest.ProcessId # CurrentPid
                   THEN /\ cr3' = SearchMemRequest.ProcessId
                        /\ scan' = [scan EXCEPT !.LengthOfEachChunk = Length,
                                                !.CurrentProcessCr3 = cr3]
                   ELSE /\ scan' = [scan EXCEPT !.LengthOfEachChunk = Length]
                        /\ UNCHANGED cr3
                /\ UNCHANGED SearchResult
    /\ UNCHANGED <<msrVars, operation, CheckOutcome, readVars, editVars, SearchMemRequest, UsermodeBuffer,
                   SearchReturn, MappedPages, SearchResultsStorage, PoolState, StorageOverrun,
                   AddressFrom, AddressTo, CountOfResults, ScanReads, Candidate, Matched>>

\* the scan moves to the next position
ScanContinue(Length) ==
    /\ scan' = [scan EXCEPT !.BaseIterator = @ + Length]
    /\ pc' = "scan"
    /\ UNCHANGED <<SearchResultsStorage, StorageOverrun, CountOfResults, SearchResult>>

\* a read of the scan faulted
ScanFault ==
    /\ pc' = "fault"
    /\ UNCHANGED <<scan, SearchResultsStorage, StorageOverrun, CountOfResults, SearchResult>>

\* the pattern was found at Base: lines 849-907
ScanRecord(Length, Base) ==
    LET Index == scan.IndexToArrayOfResults
        Count == scan.CountOfOccurance + 1
        Found == ResultAddress(SearchMemRequest, Base)
    IN  /\ IF Index < Len(SearchResultsStorage)
           THEN /\ SearchResultsStorage' = [SearchResultsStorage EXCEPT ![Index + 1] = Found]
                /\ UNCHANGED StorageOverrun
           ELSE /\ StorageOverrun' = Append(StorageOverrun, Found)
                /\ UNCHANGED SearchResultsStorage
        /\ IF ResultSlotLeft(Index)
           THEN /\ scan' = [scan EXCEPT !.BaseIterator = @ + Length,
                                        !.IndexToArrayOfResults = Index + 1,
                                        !.CountOfOccurance = Count]
                /\ pc' = "scan"
                /\ UNCHANGED <<CountOfResults, SearchResult>>
           ELSE /\ scan' = [scan EXCEPT !.CountOfOccurance = Count]
                /\ CountOfResults' = Count
                /\ SearchResult' = "TRUE"
                /\ pc' = AfterPerformSearchAddress(SearchMemRequest)

\* one iteration of the scan loop of PerformSearchAddress
ScanStep ==
    /\ pc = "scan"
    /\ scan.BaseIterator < scan.EndAddress
    /\ LET Length == scan.LengthOfEachChunk
           Base == scan.BaseIterator
           Here == Base..(Base + Length - 1)
       IN  /\ Candidate' = Base
           /\ \E Cmp64 \in ReadOutcomes(mem, MappedPages, Base, Length) :
                  IF Cmp64 = <<>>
                  THEN /\ ScanFault
                       /\ ScanReads' = ScanReads \cup Here
                       /\ Matched' = FALSE
                  ELSE IF Cmp64 # SearchMemRequest.Pattern[1]
                  THEN /\ ScanContinue(Length)
                       /\ ScanReads' = ScanReads \cup Here
                       /\ Matched' = FALSE
                  ELSE \E Verify \in VerifyOutcomes(mem, MappedPages, SearchMemRequest, Length,
                                                   Base, FirstVerifiedIndex(Length)) :
                           /\ ScanReads' = ScanReads \cup Here \cup Verify.Reads
                           /\ Matched' = Verify.StillMatch
                           /\ IF Verify.Fault THEN ScanFault
                              ELSE IF Verify.StillMatch THEN ScanRecord(Length, Base)
                              ELSE ScanContinue(Length)
    /\ UNCHANGED <<msrVars, operation, CheckOutcome, readVars, editVars, SearchMemRequest, UsermodeBuffer,
                   SearchReturn, MappedPages, PoolState, AddressFrom, AddressTo, cr3>>

\* the scan loop ended: lines 918-949
ScanExit ==
    /\ pc = "scan"
    /\ scan.BaseIterator >= scan.EndAddress
    /\ cr3' = IF SearchMemRequest.ProcessId # CurrentPid THEN scan.CurrentProcessCr3 ELSE cr3
    /\ CountOfResults' = scan.CountOfOccurance
    /\ SearchResult' = "TRUE"
    /\ pc' = AfterPerformSearchAddress(SearchMemRequest)
    /\ UNCHANGED <<msrVars, operation, CheckOutcome, readVars, editVars, SearchMemRequest, UsermodeBuffer,
                   SearchReturn, MappedPages, SearchResultsStorage, PoolState, StorageOverrun,
                   AddressFrom, AddressTo, scan, ScanReads, Candidate, Matched>>

ResultInBounds_ExclusiveEnd(CurrentValue, From, To) == CurrentValue >= From /\ CurrentValue < To

\* if (CurrentValue >= AddressFrom && CurrentValue <= AddressTo)
ResultInBounds(CurrentValue, From, To) == CurrentValue >= From /\ CurrentValue <= To

RECURSIVE CompactResults(_, _, _, _, _, _)
\* the copy loop of lines 1206-1226 from entry i (from 1) on
CompactResults(Storage, i, Out, ResultsIndex, From, To) ==
    IF i > Len(Storage) \/ Storage[i] = 0
    THEN Out
    ELSE IF ResultInBounds(Storage[i], From, To)
    THEN CompactResults(Storage, i + 1, [Out EXCEPT ![ResultsIndex + 1] = Storage[i]],
                        ResultsIndex + 1, From, To)
    ELSE CompactResults(Storage, i + 1, Out, ResultsIndex, From, To)

\* the physical branch of the wrapper after PerformSearchAddress returned
SearchAddressWrapperRestore ==
    /\ pc = "restore"
    /\ SearchMemRequest' = RestoreRequest(SearchMemRequest, scan.RealPhysicalAddress)
    /\ pc' = "copyback"
    /\ UNCHANGED <<msrVars, operation, CheckOutcome, readVars, editVars, UsermodeBuffer,
                   SearchReturn, MappedPages, SearchResultsStorage, PoolState, StorageOverrun,
                   AddressFrom, AddressTo, CountOfResults, SearchResult, cr3, scan, ScanReads,
                   Candidate, Matched>>

PlatformMemFreePool_Leak(State) == State

\* PlatformMemFreePool(SearchResultsStorage): the state of the pool block
\* after the call; freeing a block that is not allocated is a double free
PlatformMemFreePool(State) == IF State = "allocated" THEN "freed" ELSE "double-free"

\* DebuggerCommandSearchMemory after the wrapper returned: lines 1198-1233
SearchCopyBack ==
    /\ pc = "copyback"
    /\ UsermodeBuffer' =
           CompactResults(SearchResultsStorage, 1, ZeroedArray, 0, AddressFrom, AddressTo)
    /\ PoolState' = PlatformMemFreePool(PoolState)
    /\ SearchReturn' = "STATUS_SUCCESS"
    /\ pc' = "done"
    /\ UNCHANGED <<msrVars, operation, CheckOutcome, readVars, editVars, SearchMemRequest, MappedPages,
                   SearchResultsStorage, StorageOverrun, AddressFrom, AddressTo, CountOfResults,
                   SearchResult, cr3, scan, ScanReads, Candidate, Matched>>

RECURSIVE Patterns(_)
\* the patterns of 1..n chunks
Patterns(n) ==
    IF n = 0 THEN {}
    ELSE Patterns(n - 1) \cup [1..n -> PatternValues]

SearchStarts == {PAGE_SIZE, PAGE_SIZE + 1}

SearchLengths == {1, PAGE_SIZE, 2 * PAGE_SIZE + 2}

\* target memory that holds 1 at the addresses of Ones and 0 elsewhere
MemoryWith(Ones) == [a \in SearchAddresses |-> IF a \in Ones THEN 1 ELSE 0]

SearchRequests(Pids, Types, Sizes) ==
    UNION {[ProcessId : Pids,
            Address : SearchStarts,
            Length : SearchLengths,
            MemoryType : Types,
            ByteSize : Sizes,
            CountOf64Chunks : {Len(p)},
            Pattern : {p}] : p \in Patterns(MaxPatternChunks)}

\* every page mapped, memory holding at most two non-zero bytes
InitSearchContents ==
    /\ MappedPages = 1..LastPage
    /\ \E Ones \in SUBSET (PAGE_SIZE..((LastPage + 1) * PAGE_SIZE - 1)) :
           Cardinality(Ones) <= 2 /\ mem = MemoryWith(Ones)
    /\ SearchMemRequest \in SearchRequests({CurrentPid}, {"SEARCH_VIRTUAL_MEMORY"},
                                           SearchByteSizes \ {"INVALID_BYTE_SIZE"})

\* every mapping of the pages, two memory contents
InitSearchMappings ==
    /\ MappedPages \in SUBSET (1..LastPage)
    /\ mem \in {MemoryWith({}), MemoryWith({PAGE_SIZE + 1})}
    /\ SearchMemRequest \in SearchRequests({CurrentPid, OtherPid},
                                           {"SEARCH_VIRTUAL_MEMORY", "INVALID_MEMORY_TYPE"},
                                           SearchByteSizes)

\* the physical searches: a range of physical pages 1 and 2, seen through
\* the direct map at virtual pages 2 and 3
InitSearchPhysical ==
    /\ MappedPages = 1..LastPage
    /\ mem \in {MemoryWith({}), MemoryWith({2 * PAGE_SIZE + 1})}
    /\ SearchMemRequest \in
           {q \in SearchRequests({CurrentPid, OtherPid}, {"SEARCH_PHYSICAL_MEMORY"},
                                 SearchByteSizes) : q.Length <= PAGE_SIZE}

InitSearch ==
    /\ MsrIdle
    /\ pc = "ready"
    /\ operation = "SearchMemory"
    /\ CheckOutcome = "none"
    /\ ReadIdle
    /\ EditMemRequest = <<>>
    /\ EditReturn = "none"
    /\ Written = {}
    /\ CheckedLength = -1
    /\ WriteOutcomes = <<>>
    /\ InitSearchContents \/ InitSearchMappings \/ InitSearchPhysical
    /\ UsermodeBuffer = RequestImage
    /\ SearchReturn = "none"
    /\ SearchResultsStorage = <<>>
    /\ PoolState = "none"
    /\ StorageOverrun = <<>>
    /\ AddressFrom = 0
    /\ AddressTo = 0
    /\ CountOfResults = 0
    /\ SearchResult = "none"
    /\ cr3 = CurrentPid
    /\ scan = <<>>
    /\ ScanReads = {}
    /\ Candidate = 0
    /\ Matched = FALSE

NextSearch ==
    \/ DebuggerCommandSearchMemory
    \/ SearchAddressWrapper
    \/ SearchAddressWrapperValidate
    \/ PerformSearchAddress
    \/ ScanStep
    \/ ScanExit
    \/ SearchAddressWrapperRestore
    \/ SearchCopyBack

SpecSearch == InitSearch /\ [][NextSearch]_vars

(***************************************************************************)
(* The copy of the results to the caller on its own.  In a physical search *)
(* the recorded addresses are translations of the scanned positions, so    *)
(* they can lie anywhere; the result array is filled from entry 0 on, so a *)
(* zero entry is followed by zero entries only.                            *)
(***************************************************************************)
MaxResultValue == 5

RECURSIVE FilledArrays(_)
\* the result arrays with n recorded addresses
FilledArrays(n) ==
    {[i \in 1..MaximumSearchResults |-> IF i <= n THEN Recorded[i] ELSE 0] :
        Recorded \in [1..n -> 1..MaxResultValue]}
    \cup (IF n = 0 THEN {} ELSE FilledArrays(n - 1))

InitCopyBack ==
    /\ MsrIdle
    /\ pc = "copyback"
    /\ operation = "SearchMemory"
    /\ CheckOutcome = "none"
    /\ ReadIdle
    /\ EditIdle
    /\ AddressFrom \in 1..MaxResultValue
    /\ AddressTo \in AddressFrom..MaxResultValue
    /\ SearchMemRequest = [ProcessId |-> CurrentPid,
                           Address |-> AddressFrom,
                           Length |-> AddressTo - AddressFrom,
                           MemoryType |-> "SEARCH_PHYSICAL_MEMORY",
                           ByteSize |-> "SEARCH_BYTE",
                           CountOf64Chunks |-> 1,
                           Pattern |-> <<Word(0)>>]
    /\ SearchResultsStorage \in FilledArrays(MaximumSearchResults)
    /\ UsermodeBuffer = RequestImage
    /\ SearchReturn = "none"
    /\ MappedPages = {}
    /\ PoolState = "allocated"
    /\ StorageOverrun = <<>>
    /\ CountOfResults = Cardinality({i \in 1..MaximumSearchResults : SearchResultsStorage[i] # 0})
    /\ SearchResult = "TRUE"
    /\ cr3 = CurrentPid
    /\ scan = <<>>
    /\ ScanReads = {}
    /\ Candidate = 0
    /\ Matched = FALSE

NextCopyBack == SearchCopyBack

SpecCopyBack == InitCopyBack /\ [][NextCopyBack]_vars

(***************************************************************************)
(* Properties of the memory search.                                        *)
(***************************************************************************)
\* the pages strictly between the first and the last page of [From, To)
InnerPages(From, To) == (PageOf(From) + 1)..(PageOf(To - 1) - 1)

\* a virtual search whose range has an unmapped page strictly inside it
HoleInRange ==
    /\ operation = "SearchMemory"
    /\ SearchMemRequest.MemoryType = "SEARCH_VIRTUAL_MEMORY"
    /\ \E Page \in InnerPages(SearchMemRequest.Address,
                              SearchMemRequest.Address + SearchMemRequest.Length) :
           Page \notin MappedPages

\* C1: a virtual search over a range with an unmapped page strictly between
\* its first and its last page is rejected: the scan is never entered, no
\* byte of the range is read for comparison, and the caller gets no result
\* address.
C1_RangeWithHoleIsRejected ==
    HoleInRange =>
        /\ pc \notin {"perform", "scan", "fault"}
        /\ ScanReads = {}
        /\ pc = "done" /\ SearchReturn = "STATUS_SUCCESS" => UsermodeBuffer = ZeroedArray

\* the scan has examined the position Candidate and moved on
CandidateExamined ==
    /\ operation = "SearchMemory"
    /\ ScanReads # {}
    /\ pc # "fault"

\* the bytes the whole pattern covers from Candidate on all translate
PatternRangeMapped ==
    RangeTranslates(MappedPages, Candidate,
                    SearchMemRequest.CountOf64Chunks
                        * SearchLengthOfEachChunk(SearchMemRequest.ByteSize))

\* every pattern chunk equals the memory chunk at its offset from Candidate
PatternPresentAtCandidate ==
    LET G == SearchLengthOfEachChunk(SearchMemRequest.ByteSize)
    IN  \A i \in 0..(SearchMemRequest.CountOf64Chunks - 1) :
            ChunkAt(mem, Candidate + i * G, G) = SearchMemRequest.Pattern[i + 1]

\* C2: over mapped memory, while the result array is not full, the position
\* the scan examined is recorded as a match if and only if every chunk of
\* the pattern equals the memory chunk at position + index * granularity.
C2_RecordedIffWholePatternPresent ==
    CandidateExamined /\ PatternRangeMapped /\ StorageOverrun = <<>> =>
        (Matched <=> PatternPresentAtCandidate)

\* C3: a search that reports success never reports more matches than the
\* result array holds, and never stores past the end of the array.
C3_CountNeverExceedsMaximum ==
    operation = "SearchMemory" /\ SearchResult = "TRUE" =>
        /\ CountOfResults <= MaximumSearchResults
        /\ StorageOverrun = <<>>

\* C21: the scratch result array is released exactly once before the search
\* returns whenever it was allocated, whether the wrapper reported success
\* or failure; when the allocation fails the search returns the
\* allocation-failure status with the request and output buffer as they were;
\* and the array is never still allocated, or freed twice, at a return.
C21_ScratchBufferReleased ==
    (operation = "SearchMemory" /\ pc = "done") =>
        /\ PoolState \in {"none", "freed"}
        /\ SearchReturn = "STATUS_SUCCESS" <=> PoolState = "freed"
        /\ SearchReturn = "STATUS_INSUFFICIENT_RESOURCES" =>
               /\ PoolState = "none"
               /\ UsermodeBuffer = RequestImage
               /\ SearchResultsStorage = <<>>

\* the wrapper reported failure and the array was released all the same
C21_Witness ==
    /\ operation = "SearchMemory"
    /\ pc = "done"
    /\ SearchResult = "FALSE"
    /\ SearchMemRequest.MemoryType = "SEARCH_VIRTUAL_MEMORY"
    /\ PoolState = "freed"
    /\ SearchReturn = "STATUS_SUCCESS"

\* the allocation failed and the caller's buffer was left alone
C21_WitnessAllocationFailed ==
    /\ operation = "SearchMemory"
    /\ pc = "done"
    /\ SearchReturn = "STATUS_INSUFFICIENT_RESOURCES"
    /\ UsermodeBuffer = RequestImage

\* C23: every store of the scan into the result array is at an index below
\* MaximumSearchResults, the number of entries the array was allocated
\* with: at no point of the scan has a value been stored past the end of
\* the array.
C23_ResultStoresStayInsideArray ==
    (operation = "SearchMemory" /\ pc \in {"scan", "restore", "copyback", "done", "fault"}) =>
        Len(StorageOverrun) = 0

\* C25: every read of target memory the scan makes, for the first chunk at
\* a position and for the chunks after it, is of addresses in
\* [StartAddress, EndAddress) only.
C25_ScanReadsStayInsideRange ==
    (operation = "SearchMemory" /\ scan # <<>>) =>
        \A a \in ScanReads : a >= scan.StartAddress /\ a < scan.EndAddress

\* SearchAddressWrapper has returned to DebuggerCommandSearchMemory
WrapperReturned ==
    /\ operation = "SearchMemory"
    /\ pc \in {"copyback", "done"}
    /\ PoolState # "none"

\* C22: when the wrapper has returned from a physical search, whatever the
\* scan did, the request's memory type is Physical again and its Address is
\* the original physical start address; the internal physical-from-virtual
\* tag exists only while the wrapper's call of the scan is in progress.
C22_PhysicalRequestRestored ==
    /\ (WrapperReturned
        /\ SearchMemRequest.MemoryType \notin {"SEARCH_VIRTUAL_MEMORY", "INVALID_MEMORY_TYPE"})
       => /\ SearchMemRequest.MemoryType = "SEARCH_PHYSICAL_MEMORY"
          /\ SearchMemRequest.Address = AddressFrom
    /\ (operation = "SearchMemory"
        /\ SearchMemRequest.MemoryType = "SEARCH_PHYSICAL_FROM_VIRTUAL_MEMORY")
       => pc \in {"perform", "scan", "restore", "fault"}

\* a physical search that took the early return of the full result array
C22_Witness ==
    /\ WrapperReturned
    /\ pc = "done"
    /\ StorageOverrun # <<>>
    /\ scan.RealPhysicalAddress = PAGE_SIZE + 1
    /\ scan.StartAddress = 2 * PAGE_SIZE + 1
    /\ SearchMemRequest.MemoryType = "SEARCH_PHYSICAL_MEMORY"
    /\ SearchMemRequest.Address = PAGE_SIZE + 1

\* a physical search refused by the scan for its unknown chunk size
C22_WitnessScanFailed ==
    /\ WrapperReturned
    /\ SearchResult = "FALSE"
    /\ SearchMemRequest.ByteSize = "INVALID_BYTE_SIZE"
    /\ SearchMemRequest.MemoryType = "SEARCH_PHYSICAL_MEMORY"

\* C20: every switch of the address space the search makes is undone before
\* the function that made it returns: once the wrapper has returned to
\* DebuggerCommandSearchMemory, on whatever path, the active layout is the
\* caller's own again.
C20_LayoutRestoredOnReturn ==
    (operation = "SearchMemory" /\ pc \in {"copyback", "done"}) => cr3 = CurrentPid

\* the search has returned to its caller
SearchReturned ==
    /\ pc = "done"
    /\ operation = "SearchMemory"
    /\ SearchReturn = "STATUS_SUCCESS"

\* a recorded address the caller is to get: not the zero sentinel, and
\* within the requested interval, both ends included
KeptResult(v) == v # 0 /\ v >= AddressFrom /\ v <= AddressTo

\* the output buffer that holds the addresses of Kept from slot 0 on
PaddedWithZero(Kept) ==
    [i \in 1..MaximumSearchResults |-> IF i <= Len(Kept) THEN Kept[i] ELSE 0]

\* C15: when the search has returned, the caller's buffer holds, from slot 0
\* on and in recording order, exactly the recorded addresses v with
\* AddressFrom <= v <= AddressTo; addresses outside the interval and zero
\* entries are left out, and every remaining slot is zero.
C15_BufferHoldsCompactedResults ==
    SearchReturned =>
        UsermodeBuffer = PaddedWithZero(SelectSeq(SearchResultsStorage, KeptResult))

\* an address below AddressFrom was dropped and one equal to AddressTo kept
C15_Witness ==
    /\ SearchReturned
    /\ AddressFrom = 2
    /\ AddressTo = 3
    /\ SearchResultsStorage = <<1, 3>>
    /\ UsermodeBuffer = <<3, 0>>

(***************************************************************************)
(* The MSR read and write.  The request stages the register number (and    *)
(* the value, for a write) into the MsrState slot of each target core and  *)
(* has a routine run on the core, which executes rdmsr / wrmsr with the    *)
(* core's own slot.  The routines of a broadcast run on the cores in any   *)
(* order; the call that issued the broadcast goes on when all have run.    *)
(***************************************************************************)
\* KeQueryActiveProcessorCount(0)
ProcessorsCount == 2

Cores == 0..(ProcessorsCount - 1)

\* the all-cores sentinel: 0xffffffff as an UINT32, here the largest integer
\* the model's arithmetic holds
DEBUGGER_READ_AND_WRITE_ON_MSR_APPLY_ALL_CORES == 2147483647

MsrIds == {16, 27}

MsrValues == {5, 6}

MsrActionTypes == {"DEBUGGER_MSR_READ", "DEBUGGER_MSR_WRITE", "INVALID_ACTION_TYPE"}

MsrCoreNumbers ==
    (0..(ProcessorsCount + 1)) \cup {DEBUGGER_READ_AND_WRITE_ON_MSR_APPLY_ALL_CORES}

\* the registers before the request: every register of every core differs
InitialMsrOfCore == [c \in Cores |-> [m \in MsrIds |-> 100 * (c + 1) + m]]

\* the slots as an earlier request left them
StaleDbgState == [c \in Cores |-> [Msr |-> 16, Value |-> 50 + c]]

UntouchedMsrBuffer == [i \in 1..ProcessorsCount |-> -1]

\* what the caller's size variable can hold before the call
CallerReturnSizes == {0, 3, 16}

\* what DpcRoutineRunTaskOnSingleCore can return
DispatchStatuses == {"STATUS_SUCCESS", "STATUS_UNSUCCESSFUL", "STATUS_INSUFFICIENT_RESOURCES"}

CoreNumberRejected_ReadOnly(ActionType, CoreNumber, Count) ==
    ActionType = "DEBUGGER_MSR_READ" /\ CoreNumber >= Count

\* if (ReadOrWriteMsrRequest->CoreNumber >= ProcessorsCount), in the write
\* and in the read branch
CoreNumberRejected(ActionType, CoreNumber, Count) == CoreNumber >= Count

\* g_DbgState[c].MsrState.Msr = Msr for the cores of Target
StageMsr(State, Target, Msr) ==
    [c \in DOMAIN State |-> IF c \in Target THEN [State[c] EXCEPT !.Msr = Msr] ELSE State[c]]

\* g_DbgState[c].MsrState.Value = Value for the cores of Target
StageValue(State, Target, Value) ==
    [c \in DOMAIN State |-> IF c \in Target THEN [State[c] EXCEPT !.Value = Value] ELSE State[c]]

\* the read routine on core c: the core's slot gets the register's contents
PerformReadMsr(State, Registers, c) ==
    [d \in DOMAIN State |->
        IF d = c THEN [State[d] EXCEPT !.Value = Registers[d][State[d].Msr]] ELSE State[d]]

\* the write routine on core c: the register gets the value of the core's slot
PerformWriteMsr(State, Registers, c) ==
    [d \in DOMAIN Registers |->
        IF d = c THEN [Registers[d] EXCEPT ![State[d].Msr] = State[d].Value]
        ELSE Registers[d]]

GatherAllCores_FirstCoreOnly(State, Buffer, Count) ==
    [i \in DOMAIN Buffer |-> IF i <= Count THEN State[0].Value ELSE Buffer[i]]

\* UserBuffer[i] = g_DbgState[i].MsrState.Value for i < Count
GatherAllCores(State, Buffer, Count) ==
    [i \in DOMAIN Buffer |-> IF i <= Count THEN State[i - 1].Value ELSE Buffer[i]]

SingleCoreReadFailed_Never(Status) == FALSE

\* if (Status != STATUS_SUCCESS)
SingleCoreReadFailed(Status) == Status # "STATUS_SUCCESS"

\* *ReturnSize = sizeof(UINT64)
SingleCoreReadSize == 8

\* *ReturnSize = sizeof(UINT64) * ProcessorsCount
AllCoresReadSize(Count) == 8 * Count

\* *ReturnSize = Size; return Status;
MsrReturns(Status, Size) ==
    /\ MsrStatus' = Status
    /\ MsrReturnSize' = Size
    /\ pc' = "done"

\* return Status; on a path that does not assign *ReturnSize
MsrReturnsSizeUnset(Status) ==
    /\ MsrStatus' = Status
    /\ UNCHANGED MsrReturnSize
    /\ pc' = "done"

\* DebuggerReadOrWriteMsr up to the broadcast or the single-core dispatch
DebuggerReadOrWriteMsr ==
    /\ pc = "ready"
    /\ operation = "ReadOrWriteMsr"
    /\ LET Request == ReadOrWriteMsrRequest
           AllCores == Request.CoreNumber = DEBUGGER_READ_AND_WRITE_ON_MSR_APPLY_ALL_CORES
       IN  IF Request.ActionType = "DEBUGGER_MSR_WRITE"
           THEN IF AllCores
                THEN /\ g_DbgState' = StageValue(StageMsr(g_DbgState, Cores, Request.Msr),
                                                 Cores, Request.Value)
                     /\ PendingCores' = Cores
                     /\ pc' = "broadcast"
                     /\ UNCHANGED <<MsrStatus, MsrReturnSize>>
                ELSE IF CoreNumberRejected(Request.ActionType, Request.CoreNumber,
                                           ProcessorsCount)
                THEN /\ MsrReturnsSizeUnset("STATUS_INVALID_PARAMETER")
                     /\ UNCHANGED <<g_DbgState, PendingCores>>
                ELSE /\ g_DbgState' = StageValue(StageMsr(g_DbgState, {Request.CoreNumber},
                                                          Request.Msr),
                                                 {Request.CoreNumber}, Request.Value)
                     /\ pc' = "dispatch"
                     /\ UNCHANGED <<MsrStatus, MsrReturnSize, PendingCores>>
           ELSE IF Request.ActionType = "DEBUGGER_MSR_READ"
           THEN IF AllCores
                THEN /\ g_DbgState' = StageMsr(g_DbgState, Cores, Request.Msr)
                     /\ PendingCores' = Cores
                     /\ pc' = "broadcast"
                     /\ UNCHANGED <<MsrStatus, MsrReturnSize>>
                ELSE IF CoreNumberRejected(Request.ActionType, Request.CoreNumber,
                                           ProcessorsCount)
                THEN /\ MsrReturns("STATUS_INVALID_PARAMETER", 0)
                     /\ UNCHANGED <<g_DbgState, PendingCores>>
                ELSE /\ g_DbgState' = StageMsr(g_DbgState, {Request.CoreNumber}, Request.Msr)
                     /\ pc' = "dispatch"
                     /\ UNCHANGED <<MsrStatus, MsrReturnSize, PendingCores>>
           ELSE /\ MsrReturns("STATUS_UNSUCCESSFUL", 0)
                /\ UNCHANGED <<g_DbgState, PendingCores>>
    /\ UNCHANGED <<operation, CheckOutcome, readVars, editVars, searchVars,
                   ReadOrWriteMsrRequest, MsrOfCore, MsrUserBuffer, DispatchedCores,
                   DispatchStatus>>

\* the routine of the broadcast runs on core c
DpcRoutineOnCore(c) ==
    /\ pc = "broadcast"
    /\ c \in PendingCores
    /\ PendingCores' = PendingCores \ {c}
    /\ DispatchedCores' = DispatchedCores \cup {c}
    /\ IF ReadOrWriteMsrRequest.ActionType = "DEBUGGER_MSR_WRITE"
       THEN /\ MsrOfCore' = PerformWriteMsr(g_DbgState, MsrOfCore, c)
            /\ UNCHANGED g_DbgState
       ELSE /\ g_DbgState' = PerformReadMsr(g_DbgState, MsrOfCore, c)
            /\ UNCHANGED MsrOfCore
    /\ UNCHANGED <<pc, operation, CheckOutcome, readVars, editVars, searchVars,
                   ReadOrWriteMsrRequest, MsrUserBuffer, MsrReturnSize, MsrStatus,
                   DispatchStatus>>

\* KeGenericCallDpc has returned: every core ran its routine
BroadcastReturns ==
    /\ pc = "broadcast"
    /\ PendingCores = {}
    /\ IF ReadOrWriteMsrRequest.ActionType = "DEBUGGER_MSR_WRITE"
       THEN /\ MsrReturns("STATUS_SUCCESS", 0)
            /\ UNCHANGED MsrUserBuffer
       ELSE /\ MsrUserBuffer' = GatherAllCores(g_DbgState, MsrUserBuffer, ProcessorsCount)
            /\ MsrReturns("STATUS_SUCCESS", AllCoresReadSize(ProcessorsCount))
    /\ UNCHANGED <<operation, CheckOutcome, readVars, editVars, searchVars,
                   ReadOrWriteMsrRequest, g_DbgState, MsrOfCore, PendingCores, DispatchedCores,
                   DispatchStatus>>

\* DpcRoutineRunTaskOnSingleCore and the rest of the single-core branch; a
\* dispatch that fails has not run the routine
SingleCoreDispatch ==
    /\ pc = "dispatch"
    /\ \E Status \in DispatchStatuses :
           LET Core == ReadOrWriteMsrRequest.CoreNumber
               Ran == Status = "STATUS_SUCCESS"
           IN  /\ DispatchedCores' = DispatchedCores \cup {Core}
               /\ DispatchStatus' = Status
               /\ IF ReadOrWriteMsrRequest.ActionType = "DEBUGGER_MSR_WRITE"
                  THEN /\ MsrOfCore' = IF Ran THEN PerformWriteMsr(g_DbgState, MsrOfCore, Core)
                                       ELSE MsrOfCore
                       /\ MsrReturns(Status, 0)
                       /\ UNCHANGED <<g_DbgState, MsrUserBuffer>>
                  ELSE /\ g_DbgState' = IF Ran THEN PerformReadMsr(g_DbgState, MsrOfCore, Core)
                                        ELSE g_DbgState
                       /\ UNCHANGED MsrOfCore
                       /\ IF SingleCoreReadFailed(Status)
                          THEN /\ MsrReturns(Status, 0)
                               /\ UNCHANGED MsrUserBuffer
                          ELSE /\ MsrUserBuffer' =
                                      [MsrUserBuffer EXCEPT ![1] = g_DbgState'[Core].Value]
                               /\ MsrReturns("STATUS_SUCCESS", SingleCoreReadSize)
    /\ UNCHANGED <<operation, CheckOutcome, readVars, editVars, searchVars,
                   ReadOrWriteMsrRequest, PendingCores>>

MsrRequests ==
    [ActionType : MsrActionTypes,
     CoreNumber : MsrCoreNumbers,
     Msr : MsrIds,
     Value : MsrValues]

InitMsr ==
    /\ pc = "ready"
    /\ operation = "ReadOrWriteMsr"
    /\ CheckOutcome = "none"
    /\ ReadIdle
    /\ EditIdle
    /\ SearchIdle
    /\ ReadOrWriteMsrRequest \in MsrRequests
    /\ g_DbgState = StaleDbgState
    /\ MsrOfCore = InitialMsrOfCore
    /\ MsrUserBuffer = UntouchedMsrBuffer
    /\ MsrReturnSize \in CallerReturnSizes
    /\ MsrStatus = "none"
    /\ PendingCores = {}
    /\ DispatchedCores = {}
    /\ DispatchStatus = "none"

NextMsr ==
    \/ DebuggerReadOrWriteMsr
    \/ \E c \in Cores : DpcRoutineOnCore(c)
    \/ BroadcastReturns
    \/ SingleCoreDispatch

SpecMsr == InitMsr /\ [][NextMsr]_vars

(***************************************************************************)
(* Properties of the MSR read and write, checked under SpecMsr.            *)
(***************************************************************************)
MsrDone == pc = "done" /\ operation = "ReadOrWriteMsr"

MsrIsRead == ReadOrWriteMsrRequest.ActionType = "DEBUGGER_MSR_READ"

MsrIsWrite == ReadOrWriteMsrRequest.ActionType = "DEBUGGER_MSR_WRITE"

MsrOnAllCores ==
    ReadOrWriteMsrRequest.CoreNumber = DEBUGGER_READ_AND_WRITE_ON_MSR_APPLY_ALL_CORES

\* a read or write for one core whose index is not below the processor count
MsrOnMissingCore ==
    /\ operation = "ReadOrWriteMsr"
    /\ MsrIsRead \/ MsrIsWrite
    /\ ~ MsrOnAllCores
    /\ ReadOrWriteMsrRequest.CoreNumber >= ProcessorsCount

\* C16: an MSR read or write for one core whose index is at least the
\* processor count returns InvalidParameter; at no point of the request is a
\* slot of any core changed or a routine dispatched to any core.
C16_MissingCoreRejected ==
    MsrOnMissingCore =>
        /\ pc \in {"ready", "done"}
        /\ g_DbgState = StaleDbgState
        /\ MsrOfCore = InitialMsrOfCore
        /\ DispatchedCores = {}
        /\ PendingCores = {}
        /\ pc = "done" => MsrStatus = "STATUS_INVALID_PARAMETER"

\* a write for the core just past the last one was rejected
C16_Witness ==
    /\ MsrDone
    /\ MsrIsWrite
    /\ ReadOrWriteMsrRequest.CoreNumber = ProcessorsCount
    /\ MsrStatus = "STATUS_INVALID_PARAMETER"
    /\ g_DbgState = StaleDbgState

\* C17: an all-cores read has the requested register in every core's slot
\* for as long as the broadcast runs, and when it returns the output size
\* is 8 * processor count and output slot i holds the Value of core i's
\* slot, which the core's routine filled from the core's own register.
C17_AllCoresRead ==
    (operation = "ReadOrWriteMsr" /\ MsrIsRead /\ MsrOnAllCores) =>
        /\ pc = "broadcast" =>
               \A c \in Cores : g_DbgState[c].Msr = ReadOrWriteMsrRequest.Msr
        /\ pc = "done" =>
               /\ MsrStatus = "STATUS_SUCCESS"
               /\ MsrReturnSize = 8 * ProcessorsCount
               /\ DispatchedCores = Cores
               /\ \A c \in Cores :
                      /\ MsrUserBuffer[c + 1] = g_DbgState[c].Value
                      /\ g_DbgState[c].Value = MsrOfCore[c][ReadOrWriteMsrRequest.Msr]

\* an all-cores read of register 27 returned the two cores' registers
C17_Witness ==
    /\ MsrDone
    /\ MsrIsRead
    /\ MsrOnAllCores
    /\ ReadOrWriteMsrRequest.Msr = 27
    /\ MsrUserBuffer[1] = 127
    /\ MsrUserBuffer[2] = 227

\* C18: the output size is set on every return: 0 for a write, 8 for a
\* successful read of one core, 8 * processor count for an all-cores read.
C18_ReturnSizeRule ==
    MsrDone =>
        /\ MsrIsWrite => MsrReturnSize = 0
        /\ MsrIsRead /\ MsrOnAllCores => MsrReturnSize = 8 * ProcessorsCount
        /\ MsrIsRead /\ ~ MsrOnAllCores /\ MsrStatus = "STATUS_SUCCESS" => MsrReturnSize = 8

\* C19: when the dispatch to the one targeted core returns a status other
\* than success, the request returns that status and output size 0, and a
\* read leaves the output buffer as it was.
C19_DispatchFailurePropagates ==
    (MsrDone /\ DispatchStatus \notin {"none", "STATUS_SUCCESS"}) =>
        /\ MsrStatus = DispatchStatus
        /\ MsrReturnSize = 0
        /\ MsrUserBuffer = UntouchedMsrBuffer

\* a read of core 1 whose dispatch ran out of resources
C19_Witness ==
    /\ MsrDone
    /\ MsrIsRead
    /\ ReadOrWriteMsrRequest.CoreNumber = 1
    /\ DispatchStatus = "STATUS_INSUFFICIENT_RESOURCES"
    /\ MsrStatus = "STATUS_INSUFFICIENT_RESOURCES"
    /\ MsrReturnSize = 0

====
